---------------------------- MODULE Spec2Model ----------------------------
(***************************************************************************)
(* A model of the HPO Portal (src/script.js): the Selection Store, the     *)
(* export function, the favorites list, the Search Controller with its     *)
(* debounce timer and its asynchronous search requests, parseSynonyms, and *)
(* the Detail Controller: the calls of showTermDetailsModal with their     *)
(* awaits, the overlay they write, and the copy of the genes.              *)
(*                                                                         *)
(* Text that the program only stores and shows (names, ids, labels, the    *)
(* exported file) is a TLA+ string; the text of the search field, which    *)
(* the program trims, is a sequence of one-character strings.               *)
(***************************************************************************)
EXTENDS Integers, Sequences, FiniteSets, TLC

VARIABLES
    selectedTerms,      \* AppState.selectedTerms
    selectionList,      \* DOM.selection.list: the placeholder or the rendered items
    selectionCount,     \* DOM.selection.count.textContent
    exportBtnDisabled,  \* DOM.selection.exportBtn.disabled
    pendingCleanups,    \* download links attached to the body, awaiting their 100ms cleanup
    searchInputValue,   \* DOM.search.input.value
    searchList,         \* DOM.search.list: a UI_STATES name or the rendered result terms
    searchCount,        \* DOM.search.count.textContent
    searchTimeout,      \* AppState.searchTimeout: the id setTimeout returned, or NoTimer
    timers,             \* the debounce timers that are set and have not fired
    nextTimerId,        \* the id the next setTimeout returns
    requests,           \* the running performHPOSearch calls, each at one of its awaits
    now,                \* the time in milliseconds
    modalDisplay,       \* DOM.modal.container.style.display
    currentTerm,        \* AppState.currentTerm
    modalParents,       \* DOM.modal.parents: a placeholder or the rendered parent entries
    modalChildren,      \* DOM.modal.children: a placeholder or the rendered child entries
    lastOp,             \* history: the Selection Store operation that ran last
    inputLog,           \* history: the input events, in order
    fetchLog,           \* history: the search calls issued, in order
    lastRender,         \* history: the search call whose outcome was rendered last
    synonymsInput,      \* the value handed to parseSynonyms
    synonymsParsed,     \* what parseSynonyms returned for it
    modalName,          \* DOM.modal.name.textContent
    modalId,            \* DOM.modal.id.textContent
    modalDefinition,    \* DOM.modal.definition.textContent
    modalSynonyms,      \* DOM.modal.synonyms: a placeholder or the rendered synonyms
    modalGenes,         \* DOM.modal.genes: a placeholder or the rendered gene chips
    modalDiseases,      \* DOM.modal.diseases: a placeholder or the rendered diseases
    isLoadingModalData, \* AppState.isLoadingModalData
    currentRef,         \* the object AppState.currentTerm refers to
    modalCalls,         \* the running showTermDetailsModal calls, each at one of its awaits
    nextCallId,         \* the number of the next showTermDetailsModal call
    relationsRender,    \* the call whose response the parent and child entries were created from
    copyButton,         \* #copyGenesBtn: the element in the document and its innerHTML
    copyTimers,         \* the 1200ms timers of showCopySuccessFeedback, in the order set
    clipboardWrites,    \* the navigator.clipboard.writeText calls that have not settled
    clipboard,          \* the text on the clipboard
    lastAlert,          \* the message of the last alert()
    termFetchLog,       \* history: the requests the overlay has sent to the term service
    sectionOwner,       \* history: per part of the overlay, the call that wrote it last
    lastModalEvent,     \* history: the last click on the overlay or on an info icon
    frequentTerms       \* the array FREQUENT_TERMS and the objects it holds

selectionVars == <<selectedTerms, selectionList, selectionCount, exportBtnDisabled>>
searchVars == <<searchInputValue, searchList, searchCount, searchTimeout, timers,
                nextTimerId, requests, now>>
parserVars == <<synonymsInput, synonymsParsed>>
overlayDom == <<modalName, modalId, modalDefinition, modalSynonyms, modalGenes,
                modalDiseases>>
overlayCalls == <<isLoadingModalData, currentRef, modalCalls, nextCallId, relationsRender>>
copyVars == <<copyButton, copyTimers, clipboardWrites, clipboard, lastAlert>>
overlayHistory == <<termFetchLog, sectionOwner, lastModalEvent>>
modalVars == <<modalDisplay, currentTerm, modalParents, modalChildren, parserVars,
               frequentTerms,
               overlayDom, overlayCalls, copyVars, overlayHistory>>
searchHistory == <<inputLog, fetchLog, lastRender>>
vars == <<selectedTerms, selectionList, selectionCount, exportBtnDisabled,
          pendingCleanups, searchInputValue, searchList, searchCount,
          searchTimeout, timers, nextTimerId, requests, now, modalDisplay,
          currentTerm, modalParents, modalChildren, lastOp, inputLog, fetchLog,
          lastRender, synonymsInput, synonymsParsed, modalName, modalId,
          modalDefinition, modalSynonyms, modalGenes, modalDiseases,
          isLoadingModalData, currentRef, modalCalls, nextCallId, relationsRender,
          copyButton, copyTimers, clipboardWrites, clipboard, lastAlert,
          termFetchLog, sectionOwner, lastModalEvent, frequentTerms>>

-----------------------------------------------------------------------------
(* Bounds of the model *)

\* the favorites entries 1..MaxFavIndex are the ones clicked
MaxFavIndex == 2
\* at most this many download links await their cleanup at once
MaxPendingCleanups == 1
\* at most this many input events happen in a behaviour
MaxInputs == 3
\* the clock stops here
MaxTime == 1500

-----------------------------------------------------------------------------
(* Constants of the program *)

DEBOUNCE_DELAY == 500

FREQUENT_TERMS ==
    << [id |-> "HP:0001263", name |-> "Global developmental delay"],
       [id |-> "HP:0001250", name |-> "Seizure"],
       [id |-> "HP:0000256", name |-> "Macrocephaly"],
       [id |-> "HP:0000252", name |-> "Microcephaly"],
       [id |-> "HP:0001252", name |-> "Hypotonia"],
       [id |-> "HP:0001508", name |-> "Failure to thrive"],
       [id |-> "HP:0000789", name |-> "Infertility"],
       [id |-> "HP:0000027", name |-> "Azoospermia"],
       [id |-> "HP:0034241", name |-> "Prenatal death"],
       [id |-> "HP:0200067", name |-> "Recurrent spontaneous abortion"],
       [id |-> "HP:0000083", name |-> "Renal insufficiency"],
       [id |-> "HP:0000107", name |-> "Renal cyst"] >>

\* UI_STATES: a state of the results area is named by its key; its count label
UI_STATES_count(state) ==
    IF state = "LOADING" THEN "Searching..." ELSE "0 terms found"

\* the content of a list element: one of the UI_STATES placeholders, or the
\* items the program appended to it
Placeholder(name) == [state |-> name, items |-> <<>>]
Items(items) == [state |-> "ITEMS", items |-> items]

\* null, for AppState.searchTimeout (the ids of setTimeout are positive) and
\* for AppState.currentTerm
NoTimer == 0
NoTerm == [null |-> TRUE]
NoBody == [parsed |-> FALSE, data |-> <<>>]
NoRender == [timer |-> NoTimer, query |-> <<>>, outcome |-> "none",
             fetch |-> "none", body |-> NoBody]

\* JavaScript values: strings, arrays of values, undefined, null, an object
JsString(str) == [type |-> "string", str |-> str, elems |-> <<>>]
JsArray(elems) == [type |-> "array", str |-> "", elems |-> elems]
JsUndefined == [type |-> "undefined", str |-> "", elems |-> <<>>]
JsNull == [type |-> "null", str |-> "", elems |-> <<>>]
JsObject == [type |-> "object", str |-> "", elems |-> <<>>]

\* references to term objects: the entries of the result list, which
\* displaySearchResults creates anew from the response of one search call, and
\* the parent and child entries created from the response of one call
NoRef == [list |-> "none", index |-> 0, render |-> 0]
ResultRef(i) == [list |-> "results", index |-> i, render |-> lastRender.timer]
RelationRef(list, i, render) == [list |-> list, index |-> i, render |-> render]

\* no call of showTermDetailsModal
NoCall == 0

\* the content of #copyGenesBtn in the page, and the one showCopySuccessFeedback
\* gives it
CopyButtonHTML == "<i class=\"fas fa-copy\"></i>"
CheckHTML == "<i class=\"fas fa-check\"></i>"

\* the overlay of the page as loaded: hidden, its elements empty
ClosedOverlay ==
    [display |-> "none", name |-> "", id |-> "", definition |-> "",
     synonyms |-> Placeholder(""), parents |-> Placeholder(""),
     children |-> Placeholder(""), genes |-> Placeholder(""),
     diseases |-> Placeholder(""), loading |-> FALSE,
     button |-> [element |-> 0, html |-> CopyButtonHTML], render |-> NoCall,
     owner |-> [title |-> NoCall, definition |-> NoCall, synonyms |-> NoCall,
                parents |-> NoCall, children |-> NoCall, genes |-> NoCall,
                diseases |-> NoCall]]

NoModalEvent == [op |-> "none", target |-> "none", flip |-> 0]

\* parseSynonyms has not returned
NotParsed == [done |-> FALSE, value |-> <<>>]


-----------------------------------------------------------------------------
(* Helpers *)

Range(seq) == {seq[i] : i \in DOMAIN seq}

\* Array.prototype.join
RECURSIVE Join(_, _)
Join(strings, sep) ==
    IF Len(strings) = 0 THEN ""
    ELSE IF Len(strings) = 1 THEN strings[1]
    ELSE strings[1] \o sep \o Join(Tail(strings), sep)

-----------------------------------------------------------------------------
(* What the search service returns *)

\* termData[i] || '' on a positional row of the search response
RowField(termData, i) ==
    IF i <= Len(termData) /\ termData[i] # "" THEN termData[i] ELSE ""

processSearchResults(rawResults) ==
    [k \in DOMAIN rawResults |->
        [id |-> RowField(rawResults[k], 1),
         name |-> RowField(rawResults[k], 2),
         definition |-> RowField(rawResults[k], 3),
         synonyms |-> JsString(RowField(rawResults[k], 4))]]

\* rows of a search response: [id, name, definition?, synonym-blob?]
SeizureRow ==
    <<"HP:0001250", "Seizure",
      "A seizure is an intermittent abnormality of nervous system physiology.",
      "Seizures; Epileptic seizure">>
MicrocephalyRow == <<"HP:0000252", "Microcephaly">>
SampleRows == <<SeizureRow, MicrocephalyRow>>

\* entries of the parents and children responses of the term service
SampleParents == <<[name |-> "Abnormal nervous system physiology", id |-> "HP:0012638"]>>
SampleChildren == <<[name |-> "Focal-onset seizure", id |-> "HP:0007359"]>>

-----------------------------------------------------------------------------
(* Selection Store *)

\* AppState.selectedTerms.some(selected => selected.id === term.id)
AlreadySelectedNever(terms, term) == FALSE
AlreadySelectedSameRecord(terms, term) == \E i \in DOMAIN terms : terms[i] = term
AlreadySelected(terms, term) ==
    \E i \in DOMAIN terms : terms[i].id = term.id

\* one rendered entry: the name, the id and the remove button bound to the id
createSelectionListItem(term) == [name |-> term.name, id |-> term.id]

renderedListStale(terms) == Placeholder("EMPTY_SELECTION")
renderedList(terms) ==
    IF Len(terms) = 0 THEN Placeholder("EMPTY_SELECTION")
    ELSE Items([i \in DOMAIN terms |-> createSelectionListItem(terms[i])])

countLabelOffByOne(terms) == ToString(Len(terms) + 1) \o " terms"
countLabel(terms) == ToString(Len(terms)) \o " terms"

exportDisabledAlways(terms) == TRUE
exportDisabled(terms) == Len(terms) = 0

\* renderSelectionList() then updateExportButtonState(), on the new store
renderSelectionList ==
    /\ selectionList' = renderedList(selectedTerms')
    /\ selectionCount' = countLabel(selectedTerms')
updateExportButtonState ==
    exportBtnDisabled' = exportDisabled(selectedTerms')

addTermToSelection(term) ==
    /\ IF AlreadySelected(selectedTerms, term)
       THEN UNCHANGED selectionVars
       ELSE /\ selectedTerms' = Append(selectedTerms, term)
            /\ renderSelectionList
            /\ updateExportButtonState
    /\ lastOp' = [op |-> "add", arg |-> term, pre |-> selectedTerms, out |-> "none"]

\* AppState.selectedTerms.filter(term => term.id !== termId)
withoutIdDropsFirst(terms, termId) == IF Len(terms) = 0 THEN <<>> ELSE Tail(terms)
RECURSIVE withoutId(_, _)
withoutId(terms, termId) ==
    IF Len(terms) = 0 THEN <<>>
    ELSE IF Head(terms).id # termId
         THEN <<Head(terms)>> \o withoutId(Tail(terms), termId)
         ELSE withoutId(Tail(terms), termId)

\* Called by the remove button of a rendered entry with that entry's id; the
\* function takes any id.
removeTermFromSelection(termId) ==
    /\ selectedTerms' = withoutId(selectedTerms, termId)
    /\ renderSelectionList
    /\ updateExportButtonState
    /\ lastOp' = [op |-> "remove", arg |-> termId, pre |-> selectedTerms, out |-> "none"]
    /\ UNCHANGED <<pendingCleanups, searchVars, modalVars, searchHistory>>

clearedStoreKeepsFirst(terms) == IF Len(terms) = 0 THEN <<>> ELSE <<terms[1]>>
clearedStore(terms) == <<>>

clearSelections ==
    /\ selectedTerms' = clearedStore(selectedTerms)
    /\ renderSelectionList
    /\ updateExportButtonState

clearAllSelections ==
    /\ clearSelections
    /\ lastOp' = [op |-> "clear", arg |-> "none", pre |-> selectedTerms, out |-> "none"]
    /\ UNCHANGED <<pendingCleanups, searchVars, modalVars, searchHistory>>

-----------------------------------------------------------------------------
(* Export *)

\* AppState.selectedTerms.map(term => `${term.name}\t${term.id}`).join('\n')
exportLine(term) == term.name \o "\t" \o term.id
exportContent(terms) ==
    Join([i \in DOMAIN terms |-> exportLine(terms[i])], "\n")

\* an export that keeps the store
exportKeepingSelection ==
    IF Len(selectedTerms) = 0
    THEN /\ lastOp' = [op |-> "export", arg |-> "none", pre |-> selectedTerms, out |-> "none"]
         /\ UNCHANGED <<selectionVars, pendingCleanups, searchVars, modalVars, searchHistory>>
    ELSE /\ pendingCleanups < MaxPendingCleanups
         /\ pendingCleanups' = pendingCleanups + 1
         /\ lastOp' = [op |-> "export", arg |-> "none", pre |-> selectedTerms,
                       out |-> exportContent(selectedTerms)]
         /\ UNCHANGED <<selectionVars, searchVars, modalVars, searchHistory>>

exportSelectedTerms ==
    IF Len(selectedTerms) = 0
    THEN /\ lastOp' = [op |-> "export", arg |-> "none", pre |-> selectedTerms, out |-> "none"]
         /\ UNCHANGED <<selectionVars, pendingCleanups, searchVars, modalVars, searchHistory>>
    ELSE /\ pendingCleanups < MaxPendingCleanups
         /\ pendingCleanups' = pendingCleanups + 1
         /\ clearSelections
         /\ lastOp' = [op |-> "export", arg |-> "none", pre |-> selectedTerms,
                       out |-> exportContent(selectedTerms)]
         /\ UNCHANGED <<searchVars, modalVars, searchHistory>>

\* the 100ms timer of an export: removes the link and revokes its URL
exportCleanup ==
    /\ pendingCleanups > 0
    /\ pendingCleanups' = pendingCleanups - 1
    /\ UNCHANGED <<selectionVars, searchVars, modalVars, lastOp, searchHistory>>

-----------------------------------------------------------------------------
(* Clicks that add to the Selection Store *)

\* the click listener of a search result, outside its info icon
searchResultClick(i) ==
    /\ i \in DOMAIN searchList.items
    /\ addTermToSelection(searchList.items[i])
    /\ UNCHANGED <<pendingCleanups, searchVars, modalVars, searchHistory>>

\* the click listener of a favorites entry
favoriteClick(i) ==
    /\ i \in 1..MaxFavIndex
    /\ i \in DOMAIN frequentTerms
    /\ addTermToSelection(frequentTerms[i])
    /\ UNCHANGED <<pendingCleanups, searchVars, modalVars, searchHistory>>

\* the add button of a parent or child entry of the overlay
relationshipAddClick(item) ==
    /\ modalDisplay = "block"
    /\ item \in Range(modalParents.items) \cup Range(modalChildren.items)
    /\ addTermToSelection(item)
    /\ UNCHANGED <<pendingCleanups, searchVars, modalVars, searchHistory>>

\* a click on the overlay or on an info icon: the listener that ran and what
\* the click hit; flip tells an event from the same event before it
ModalEvent(op, target) ==
    [op |-> op, target |-> target, flip |-> 1 - lastModalEvent.flip]

\* a close that leaves AppState.currentTerm
closeModalEffectKeepsTerm ==
    /\ modalDisplay' = "none"
    /\ UNCHANGED <<currentTerm, currentRef>>
    /\ UNCHANGED <<modalParents, modalChildren, parserVars, frequentTerms, overlayDom,
                   isLoadingModalData, modalCalls, nextCallId, relationsRender,
                   copyVars, termFetchLog, sectionOwner>>

closeModalEffect ==
    /\ modalDisplay' = "none"
    /\ currentTerm' = NoTerm
    /\ currentRef' = NoRef
    /\ UNCHANGED <<modalParents, modalChildren, parserVars, frequentTerms, overlayDom,
                   isLoadingModalData, modalCalls, nextCallId, relationsRender,
                   copyVars, termFetchLog, sectionOwner>>

\* a close button that empties the Selection Store
closeModalClearsSelection ==
    /\ modalDisplay = "block"
    /\ closeModalEffect
    /\ lastModalEvent' = ModalEvent("close", "close button")
    /\ clearSelections
    /\ UNCHANGED <<pendingCleanups, searchVars, lastOp, searchHistory>>

\* the close button of the overlay
closeModal ==
    /\ modalDisplay = "block"
    /\ closeModalEffect
    /\ lastModalEvent' = ModalEvent("close", "close button")
    /\ UNCHANGED <<selectionVars, pendingCleanups, searchVars, lastOp, searchHistory>>

\* the click listener of the window, on a click that no other listener of the
\* model takes: on the backdrop of the visible overlay, or outside the overlay
handleWindowClick(target) ==
    /\ target = "termModal" => modalDisplay = "block"
    /\ IF target = "termModal"
       THEN closeModalEffect
       ELSE UNCHANGED <<modalDisplay, currentTerm, modalParents, modalChildren,
                        parserVars, frequentTerms, overlayDom, overlayCalls, copyVars, termFetchLog,
                        sectionOwner>>
    /\ lastModalEvent' = ModalEvent("window click", target)
    /\ UNCHANGED <<selectionVars, pendingCleanups, searchVars, lastOp, searchHistory>>

addCurrentTermFromModal ==
    /\ modalDisplay = "block"
    /\ IF currentTerm # NoTerm
       THEN /\ addTermToSelection(currentTerm)
            /\ closeModalEffect
       ELSE UNCHANGED <<selectionVars, lastOp, modalDisplay, currentTerm, modalParents,
                        modalChildren, parserVars, frequentTerms, overlayDom, overlayCalls, copyVars,
                        termFetchLog, sectionOwner>>
    /\ lastModalEvent' = ModalEvent("add current", "addFromModal")
    /\ UNCHANGED <<pendingCleanups, searchVars, searchHistory>>

-----------------------------------------------------------------------------
(* Search Controller *)

IsWhitespace(c) == c \in {" ", "\t", "\n"}

\* String.prototype.trim, on a sequence of characters
RECURSIVE TrimStart(_)
TrimStart(chars) ==
    IF Len(chars) > 0 /\ IsWhitespace(Head(chars)) THEN TrimStart(Tail(chars)) ELSE chars
RECURSIVE TrimEnd(_)
TrimEnd(chars) ==
    IF Len(chars) > 0 /\ IsWhitespace(chars[Len(chars)])
    THEN TrimEnd(SubSeq(chars, 1, Len(chars) - 1))
    ELSE chars
Trim(chars) == TrimEnd(TrimStart(chars))

\* updateResultsUI(UI_STATES[name])
updateResultsUI(name) ==
    /\ searchList' = Placeholder(name)
    /\ searchCount' = UI_STATES_count(name)

\* clearTimeout(id): a timer that fired, or null, is no timer of the set
clearTimeoutKeepsAll(active, id) == active
clearTimeout(active, id) == {timer \in active : timer.id # id}

\* the input listener of the search field, on the field's new value
handleSearchInput(value) ==
    /\ Len(inputLog) < MaxInputs
    /\ searchInputValue' = value
    /\ LET query == Trim(value) IN
       IF query = <<>>
       THEN /\ updateResultsUI("EMPTY_SEARCH")
            /\ inputLog' = Append(inputLog, [t |-> now, query |-> query, timer |-> NoTimer])
            /\ UNCHANGED <<searchTimeout, timers, nextTimerId>>
       ELSE /\ updateResultsUI("LOADING")
            /\ timers' = clearTimeout(timers, searchTimeout)
                            \cup {[id |-> nextTimerId, due |-> now + DEBOUNCE_DELAY,
                                   query |-> query]}
            /\ searchTimeout' = nextTimerId
            /\ nextTimerId' = nextTimerId + 1
            /\ inputLog' = Append(inputLog, [t |-> now, query |-> query, timer |-> nextTimerId])
    /\ UNCHANGED <<selectionVars, pendingCleanups, requests, now, modalVars, lastOp,
                   fetchLog, lastRender>>

\* a debounce timer fires, no earlier than its delay: performHPOSearch(query)
\* runs up to its fetch
debounceTimerFires(timer) ==
    /\ timer \in timers
    /\ now >= timer.due
    /\ timers' = timers \ {timer}
    /\ requests' = requests \cup {[id |-> timer.id, query |-> timer.query, pc |-> "fetch"]}
    /\ fetchLog' = Append(fetchLog, [t |-> now, query |-> timer.query, timer |-> timer.id])
    /\ UNCHANGED <<selectionVars, pendingCleanups, searchInputValue, searchList,
                   searchCount, searchTimeout, nextTimerId, now, modalVars, lastOp,
                   inputLog, lastRender>>

\* what fetch settles with: a rejection, or a response that is ok or not
FetchOutcomes == {"rejected", "not ok", "ok"}

\* what response.json() settles with: a rejection, or the parsed body, whose
\* fourth element holds the rows
JsonOutcomes ==
    { NoBody,
      [parsed |-> TRUE, data |-> <<2, <<"HP:0001250", "HP:0000252">>, "null", SampleRows>>],
      [parsed |-> TRUE, data |-> <<0, <<>>, "null", <<>> >>],
      [parsed |-> TRUE, data |-> <<0, <<>>, "null">>] }

\* the rows read one element too far
resultRowsFifthElement(data) == IF Len(data) >= 5 THEN data[5] ELSE <<>>

\* data[3] || []
resultRows(data) == IF Len(data) >= 4 THEN data[4] ELSE <<>>

displaySearchResults(terms) ==
    /\ searchList' = Items(terms)
    /\ searchCount' = ToString(Len(terms)) \o " terms found"

\* performHPOSearch resumes after its fetch
searchFetchSettles(request, outcome) ==
    /\ request \in requests
    /\ request.pc = "fetch"
    /\ IF outcome = "ok"
       THEN /\ requests' = (requests \ {request}) \cup {[request EXCEPT !.pc = "json"]}
            /\ UNCHANGED <<searchList, searchCount, lastRender>>
       ELSE /\ requests' = requests \ {request}
            /\ updateResultsUI("ERROR")
            /\ lastRender' = [timer |-> request.id, query |-> request.query,
                              outcome |-> "ERROR", fetch |-> outcome,
                              body |-> NoBody]
    /\ UNCHANGED <<selectionVars, pendingCleanups, searchInputValue, searchTimeout,
                   timers, nextTimerId, now, modalVars, lastOp, inputLog, fetchLog>>

\* performHPOSearch resumes after response.json()
searchJsonSettles(request, body) ==
    /\ request \in requests
    /\ request.pc = "json"
    /\ requests' = requests \ {request}
    /\ IF ~body.parsed
       THEN /\ updateResultsUI("ERROR")
            /\ lastRender' = [timer |-> request.id, query |-> request.query,
                              outcome |-> "ERROR", fetch |-> "ok",
                              body |-> body]
       ELSE IF Len(resultRows(body.data)) > 0
       THEN /\ displaySearchResults(processSearchResults(resultRows(body.data)))
            /\ lastRender' = [timer |-> request.id, query |-> request.query,
                              outcome |-> "RESULTS", fetch |-> "ok",
                              body |-> body]
       ELSE /\ updateResultsUI("NO_RESULTS")
            /\ lastRender' = [timer |-> request.id, query |-> request.query,
                              outcome |-> "NO_RESULTS", fetch |-> "ok",
                              body |-> body]
    /\ UNCHANGED <<selectionVars, pendingCleanups, searchInputValue, searchTimeout,
                   timers, nextTimerId, now, modalVars, lastOp, inputLog, fetchLog>>

\* time passes
tick ==
    /\ now + DEBOUNCE_DELAY \div 2 <= MaxTime
    /\ now' = now + DEBOUNCE_DELAY \div 2
    /\ UNCHANGED <<selectionVars, pendingCleanups, searchInputValue, searchList,
                   searchCount, searchTimeout, timers, nextTimerId, requests,
                   modalVars, lastOp, searchHistory>>

-----------------------------------------------------------------------------
(* parseSynonyms, on every kind of value a synonyms field can hold *)

\* the longest string, in characters, and the longest array handed to
\* parseSynonyms
MaxSynonymChars == 3
MaxSynonymElems == 2

\* !value
Falsy(value) ==
    \/ value.type \in {"undefined", "null"}
    \/ value.type = "string" /\ value.str = ""

\* String(value), for the values an array of synonyms holds
String(value) ==
    IF value.type = "string" THEN value.str
    ELSE IF value.type = "array" THEN ""
    ELSE IF value.type = "object" THEN "[object Object]"
    ELSE value.type

\* String.prototype.trim
RECURSIVE trimStart(_)
trimStart(str) ==
    IF Len(str) > 0 /\ IsWhitespace(SubSeq(str, 1, 1))
    THEN trimStart(SubSeq(str, 2, Len(str)))
    ELSE str
RECURSIVE trimEnd(_)
trimEnd(str) ==
    IF Len(str) > 0 /\ IsWhitespace(SubSeq(str, Len(str), Len(str)))
    THEN trimEnd(SubSeq(str, 1, Len(str) - 1))
    ELSE str
trimStartOnly(str) == trimStart(str)
trim(str) == trimEnd(trimStart(str))

\* String.prototype.split, on a separator of one character
RECURSIVE split(_, _)
split(str, sep) ==
    LET hits == {i \in 1..Len(str) : SubSeq(str, i, i) = sep} IN
    IF hits = {} THEN <<str>>
    ELSE LET first == CHOOSE i \in hits : \A j \in hits : i <= j IN
         <<SubSeq(str, 1, first - 1)>> \o split(SubSeq(str, first + 1, Len(str)), sep)

\* .map(s => s.trim()).filter(s => s)
trimmedNonEmpty(strings) ==
    SelectSeq([k \in DOMAIN strings |-> trim(strings[k])], LAMBDA str : str # "")

parseSynonyms(synonyms) ==
    IF Falsy(synonyms) THEN <<>>
    ELSE IF synonyms.type = "string" THEN trimmedNonEmpty(split(synonyms.str, ";"))
    ELSE IF synonyms.type = "array"
    THEN trimmedNonEmpty([k \in DOMAIN synonyms.elems |-> String(synonyms.elems[k])])
    ELSE <<>>

\* the strings of at most MaxSynonymChars characters of a synonym blob, and
\* the blob of a term of the service
SynonymAlphabet == {"a", " ", ";"}
SynonymStrings ==
    {Join(chars, "") : chars \in UNION {[1..n -> SynonymAlphabet] : n \in 0..MaxSynonymChars}}
        \cup {"tall stature; long fingers", SeizureRow[4]}
SynonymElems ==
    {JsString(str) : str \in {"", " ", "a;", " a ", "tall stature", "long fingers"}}
        \cup {JsNull}
SynonymInputs ==
    {JsString(str) : str \in SynonymStrings}
        \cup {JsArray(elems) : elems \in UNION {[1..n -> SynonymElems] : n \in 0..MaxSynonymElems}}
        \cup {JsUndefined, JsNull, JsObject}

\* a caller has a value of a synonyms field at hand
synonymsArrive(synonyms) ==
    /\ synonymsInput' = synonyms
    /\ synonymsParsed' = NotParsed
    /\ UNCHANGED <<selectionVars, pendingCleanups, searchVars, modalDisplay,
                   currentTerm, modalParents, modalChildren, overlayDom, overlayCalls,
                   copyVars, overlayHistory, lastOp, searchHistory, frequentTerms>>

\* and calls parseSynonyms on it
parseSynonymsCall ==
    /\ ~synonymsParsed.done
    /\ synonymsParsed' = [done |-> TRUE, value |-> parseSynonyms(synonymsInput)]
    /\ UNCHANGED <<selectionVars, pendingCleanups, searchVars, modalDisplay,
                   currentTerm, modalParents, modalChildren, overlayDom, overlayCalls,
                   copyVars, overlayHistory, lastOp, searchHistory, synonymsInput,
                   frequentTerms>>

-----------------------------------------------------------------------------
(* Detail Controller: what the term service returns *)

\* the most showTermDetailsModal calls of a behaviour
MaxOpens == 2

\* a search result without id, the third row of the result list of the overlay
NoIdRow == <<"", "Abnormality of the nervous system">>
OverlayRows == SampleRows \o <<NoIdRow>>

\* the body of JAX_TERM(hpId): its definition ("" when it has none) and its
\* synonyms
TermBodyOf(hpId) ==
    IF hpId = "HP:0001250"
    THEN [definition |-> SeizureRow[3],
          synonyms |-> JsArray(<<JsString("Seizures"), JsString("Epileptic seizure")>>)]
    ELSE IF hpId = "HP:0000252"
    THEN [definition |-> "Head circumference below 2 standard deviations.",
          synonyms |-> JsArray(<<JsString("Small head ")>>)]
    ELSE IF hpId = "HP:0007359"
    THEN [definition |-> "A seizure that starts in one hemisphere.", synonyms |-> JsArray(<<>>)]
    ELSE [definition |-> "", synonyms |-> JsUndefined]

\* what fetchJAXAnnotations returns when its calls fail: its definition and
\* synonyms fields are read by no caller
EmptyAnnotations == [genes |-> <<>>, diseases |-> <<>>, parents |-> <<>>, children |-> <<>>]

\* what fetchJAXAnnotations returns from the bodies of the four endpoints of
\* hpId
AnnotationsOf(hpId) ==
    IF hpId = "HP:0001250"
    THEN [genes |-> <<"SCN1A", "KCNQ2">>,
          diseases |-> <<"Dravet syndrome (OMIM:607208)">>,
          parents |-> SampleParents, children |-> SampleChildren]
    ELSE IF hpId = "HP:0000252"
    THEN [genes |-> <<"ASPM">>, diseases |-> <<>>, parents |-> <<>>, children |-> <<>>]
    ELSE EmptyAnnotations

\* the four requests of fetchJAXAnnotations
AnnotationEndpoints == {"annotations", "term", "parents", "children"}

-----------------------------------------------------------------------------
(* Detail Controller: the overlay *)

\* term[field], or undefined
Field(term, field, undefined) == IF field \in DOMAIN term THEN term[field] ELSE undefined
definitionOf(term) == Field(term, "definition", "")
synonymsOf(term) == Field(term, "synonyms", JsUndefined)

\* term.definition = value, term.synonyms = value
withDefinition(term, value) ==
    [field \in DOMAIN term \cup {"definition"} |->
        IF field = "definition" THEN value ELSE term[field]]
withSynonyms(term, value) ==
    [field \in DOMAIN term \cup {"synonyms"} |->
        IF field = "synonyms" THEN value ELSE term[field]]

\* the overlay: its elements, the flag of AppState and the histories of its parts
Overlay ==
    [display |-> modalDisplay, name |-> modalName, id |-> modalId,
     definition |-> modalDefinition, synonyms |-> modalSynonyms,
     parents |-> modalParents, children |-> modalChildren, genes |-> modalGenes,
     diseases |-> modalDiseases, loading |-> isLoadingModalData,
     button |-> copyButton, render |-> relationsRender, owner |-> sectionOwner]

setOverlay(o) ==
    /\ modalDisplay' = o.display
    /\ modalName' = o.name
    /\ modalId' = o.id
    /\ modalDefinition' = o.definition
    /\ modalSynonyms' = o.synonyms
    /\ modalParents' = o.parents
    /\ modalChildren' = o.children
    /\ modalGenes' = o.genes
    /\ modalDiseases' = o.diseases
    /\ isLoadingModalData' = o.loading
    /\ copyButton' = o.button
    /\ relationsRender' = o.render
    /\ sectionOwner' = o.owner

updateModalBasicInfo(o, term, call) ==
    [o EXCEPT !.name = IF term.name # "" THEN term.name ELSE "No name available",
              !.id = IF term.id # "" THEN term.id ELSE "No ID available",
              !.owner.title = call]

\* DOM.modal.definition.textContent = term.definition || 'No definition available'
showDefinition(o, term, call) ==
    [o EXCEPT !.definition = IF definitionOf(term) # "" THEN definitionOf(term)
                             ELSE "No definition available",
              !.owner.definition = call]

displayModalSynonyms(o, synonyms, call) ==
    [o EXCEPT !.synonyms = IF Len(parseSynonyms(synonyms)) > 0
                           THEN Items(parseSynonyms(synonyms))
                           ELSE Placeholder("No synonyms available"),
              !.owner.synonyms = call]

initializeModalLoadingStates(o, call) ==
    [o EXCEPT !.parents = Placeholder("Loading parent terms..."),
              !.children = Placeholder("Loading child terms..."),
              !.genes = Placeholder("Loading associated genes..."),
              !.diseases = Placeholder("Loading associated diseases..."),
              !.owner.parents = call, !.owner.children = call,
              !.owner.genes = call, !.owner.diseases = call]

\* updateModalRelationshipList, updateModalGenesList, updateModalDiseasesList
listOrPlaceholder(items, placeholder) ==
    IF Len(items) = 0 THEN Placeholder(placeholder) ELSE Items(items)

updateModalWithAnnotations(o, annotations, call) ==
    [o EXCEPT !.parents = listOrPlaceholder(annotations.parents, "No associated parent terms found"),
              !.children = listOrPlaceholder(annotations.children, "No associated child terms found"),
              !.genes = listOrPlaceholder(annotations.genes, "No associated genes found"),
              !.diseases = listOrPlaceholder(annotations.diseases, "No associated diseases found"),
              !.render = call,
              !.owner.parents = call, !.owner.children = call,
              !.owner.genes = call, !.owner.diseases = call]

showModalNoDataState(o, call) ==
    [o EXCEPT !.genes = Placeholder("No HP ID available"),
              !.diseases = Placeholder("No HP ID available"),
              !.owner.genes = call, !.owner.diseases = call]

showModalErrorState(o, call) ==
    [o EXCEPT !.genes = Placeholder("Unable to load genes"),
              !.diseases = Placeholder("Unable to load diseases"),
              !.owner.genes = call, !.owner.diseases = call]

\* copyButton.cloneNode(true) replaces the button: a new element, without
\* listeners but the one added here, with the innerHTML of the old one
setupGeneCopyFunctionality(o) ==
    [o EXCEPT !.button = [element |-> o.button.element + 1, html |-> o.button.html]]

-----------------------------------------------------------------------------
(* Detail Controller: showTermDetailsModal, from one await to the next *)

\* a request to the term service
TermRequest(endpoint, hpId, call, purpose) ==
    [endpoint |-> endpoint, hpId |-> hpId, call |-> call, purpose |-> purpose]

\* the rest of showTermDetailsModal once term.synonyms is there: up to the
\* four requests of fetchJAXAnnotations, or to its end for a term without id
afterSynonyms(o, term, call) ==
    LET shown == [initializeModalLoadingStates(
                      displayModalSynonyms(o, synonymsOf(term), call), call)
                  EXCEPT !.display = "block"] IN
    IF term.id # ""
    THEN [o |-> shown, pc |-> "annotations fetch",
          sent |-> {TermRequest(endpoint, term.id, call, "annotations") :
                        endpoint \in AnnotationEndpoints}]
    ELSE [o |-> [showModalNoDataState(shown, call) EXCEPT !.loading = FALSE],
          pc |-> "done", sent |-> {}]

\* a call that ends where term.definition is there
afterDefinitionStops(o, term, call) == [o |-> o, pc |-> "done", sent |-> {}]

\* the rest of loadModalDefinitionAndSynonyms once term.definition is there
afterDefinition(o, term, call) ==
    IF Falsy(synonymsOf(term))
    THEN [o |-> showDefinition(o, term, call), pc |-> "synonyms fetch",
          sent |-> {TermRequest("term", term.id, call, "synonyms")}]
    ELSE afterSynonyms(showDefinition(o, term, call), term, call)

\* a start that fetches the definition of every term
fromStartAlwaysFetches(o, term, call) ==
    [o |-> updateModalBasicInfo([o EXCEPT !.loading = TRUE], term, call),
     pc |-> "definition fetch",
     sent |-> {TermRequest("term", term.id, call, "definition")}]

\* showTermDetailsModal up to its first await that waits for a response
fromStart(o, term, call) ==
    LET titled == updateModalBasicInfo([o EXCEPT !.loading = TRUE], term, call) IN
    IF definitionOf(term) = ""
    THEN [o |-> titled, pc |-> "definition fetch",
          sent |-> {TermRequest("term", term.id, call, "definition")}]
    ELSE afterDefinition(titled, term, call)

\* the rest of loadModalAnnotations once fetchJAXAnnotations has returned
afterAnnotations(o, annotations, call) ==
    [o |-> [setupGeneCopyFunctionality(updateModalWithAnnotations(o, annotations, call))
            EXCEPT !.loading = FALSE],
     pc |-> "done", sent |-> {}]

\* a write to a field of the object ref, seen through every reference to it:
\* the parent and child entries of the overlay, the result list, the
\* favorites, the running calls and AppState.currentTerm. (The Selection Store holds the object too;
\* it reads its name and id only, which are never written.)
writtenInOverlay(o, ref, term) ==
    IF /\ ref.list \in {"parents", "children"}
       /\ ref.render = o.render
       /\ ref.index \in DOMAIN o[ref.list].items
    THEN [o EXCEPT ![ref.list].items[ref.index] = term]
    ELSE o

writtenInResults(list, ref, term) ==
    IF /\ ref.list = "results"
       /\ ref.render = lastRender.timer
       /\ ref.index \in DOMAIN list.items
    THEN [list EXCEPT !.items[ref.index] = term]
    ELSE list

\* the objects of the favorites written through every reference
writtenInFavoritesAnyRef(list, ref, term) ==
    IF ref.index \in DOMAIN list THEN [list EXCEPT ![ref.index] = term] ELSE list

writtenInFavorites(list, ref, term) ==
    IF ref.list = "favorites" /\ ref.index \in DOMAIN list
    THEN [list EXCEPT ![ref.index] = term]
    ELSE list

writtenInCalls(calls, ref, term) ==
    {IF call.ref = ref THEN [call EXCEPT !.term = term] ELSE call : call \in calls}

\* a call of showTermDetailsModal runs from an await to the next one, or to
\* its end: term is its term object after the assignment of this step
resume(call, term, run) ==
    /\ modalCalls' =
          writtenInCalls(modalCalls \ {call}, call.ref, term)
              \cup (IF run.pc = "done" THEN {}
                    ELSE {[call EXCEPT !.term = term, !.pc = run.pc,
                                       !.left = Cardinality(AnnotationEndpoints), !.failed = FALSE]})
    /\ searchList' = writtenInResults(searchList, call.ref, term)
    /\ frequentTerms' = writtenInFavorites(frequentTerms, call.ref, term)
    /\ currentTerm' = IF currentRef = call.ref THEN term ELSE currentTerm
    /\ setOverlay(run.o)
    /\ termFetchLog' = termFetchLog \cup run.sent
    /\ UNCHANGED <<selectionVars, pendingCleanups, searchInputValue, searchCount,
                   searchTimeout, timers, nextTimerId, requests, now, lastOp,
                   searchHistory, parserVars, currentRef, nextCallId, copyTimers,
                   clipboardWrites, clipboard, lastAlert, lastModalEvent>>

\* an await of a call goes on to the next await without a change of the page
awaitNext(call, next) ==
    /\ modalCalls' = (modalCalls \ {call}) \cup {next}
    /\ UNCHANGED <<selectionVars, pendingCleanups, searchVars, modalDisplay, currentTerm,
                   modalParents, modalChildren, parserVars, frequentTerms, overlayDom,
                   isLoadingModalData, currentRef, nextCallId, relationsRender,
                   copyVars, overlayHistory, lastOp, searchHistory>>

\* the click on an info icon: showTermDetailsModal(term) up to its first await
showTermDetailsModal(term, ref) ==
    LET call == nextCallId
        run == fromStart(Overlay, term, call) IN
    /\ call <= MaxOpens
    /\ nextCallId' = call + 1
    /\ currentTerm' = term
    /\ currentRef' = ref
    /\ modalCalls' =
          modalCalls \cup (IF run.pc = "done" THEN {}
                           ELSE {[id |-> call, term |-> term, ref |-> ref, pc |-> run.pc,
                                  left |-> Cardinality(AnnotationEndpoints),
                                  failed |-> FALSE]})
    /\ setOverlay(run.o)
    /\ termFetchLog' = termFetchLog \cup run.sent
    /\ lastModalEvent' = ModalEvent("info", ref.list)
    /\ UNCHANGED <<selectionVars, pendingCleanups, searchVars, lastOp, searchHistory,
                   parserVars, frequentTerms, copyTimers, clipboardWrites, clipboard, lastAlert>>

\* fetchTermDefinition resumes after its fetch
definitionFetchSettles(call, outcome) ==
    /\ call \in modalCalls
    /\ call.pc = "definition fetch"
    /\ IF outcome = "ok"
       THEN awaitNext(call, [call EXCEPT !.pc = "definition json"])
       ELSE LET term == withDefinition(call.term, "Definition not available") IN
            resume(call, term,
                   afterDefinition(writtenInOverlay(Overlay, call.ref, term), term, call.id))

\* fetchTermDefinition resumes after response.json()
definitionJsonSettles(call, parsed) ==
    /\ call \in modalCalls
    /\ call.pc = "definition json"
    /\ LET body == TermBodyOf(call.term.id)
           term == withDefinition(call.term,
                       IF ~parsed THEN "Definition not available"
                       ELSE IF body.definition # "" THEN body.definition
                       ELSE "No definition available") IN
       resume(call, term,
              afterDefinition(writtenInOverlay(Overlay, call.ref, term), term, call.id))

\* fetchTermSynonyms resumes after its fetch
synonymsFetchSettles(call, outcome) ==
    /\ call \in modalCalls
    /\ call.pc = "synonyms fetch"
    /\ IF outcome = "ok"
       THEN awaitNext(call, [call EXCEPT !.pc = "synonyms json"])
       ELSE LET term == withSynonyms(call.term, JsArray(<<>>)) IN
            resume(call, term,
                   afterSynonyms(writtenInOverlay(Overlay, call.ref, term), term, call.id))

\* fetchTermSynonyms resumes after response.json()
synonymsJsonSettles(call, parsed) ==
    /\ call \in modalCalls
    /\ call.pc = "synonyms json"
    /\ LET body == TermBodyOf(call.term.id)
           term == withSynonyms(call.term,
                       IF parsed /\ ~Falsy(body.synonyms) THEN body.synonyms
                       ELSE JsArray(<<>>)) IN
       resume(call, term,
              afterSynonyms(writtenInOverlay(Overlay, call.ref, term), term, call.id))

\* one of the four fetches of fetchJAXAnnotations settles: Promise.all rejects
\* with the first rejection and resolves with the last response. The outcome
\* "not ok" is the one of a response whose ok flag fetchJAXAnnotations tests:
\* the response of JAX_TERM, which it does not test, counts as "ok".
annotationFetchSettles(call, outcome) ==
    /\ call \in modalCalls
    /\ call.pc = "annotations fetch"
    /\ LET left == call.left - 1
           failed == call.failed \/ outcome = "not ok" IN
       IF outcome = "rejected" \/ (left = 0 /\ failed)
       THEN resume(call, call.term, afterAnnotations(Overlay, EmptyAnnotations, call.id))
       ELSE awaitNext(call, [call EXCEPT !.left = left, !.failed = failed,
                                         !.pc = IF left = 0 THEN "annotations json"
                                                ELSE "annotations fetch"])

\* the four response.json() of fetchJAXAnnotations settle
annotationJsonSettles(call, parsed) ==
    /\ call \in modalCalls
    /\ call.pc = "annotations json"
    /\ resume(call, call.term,
              afterAnnotations(Overlay,
                               IF parsed THEN AnnotationsOf(call.term.id)
                               ELSE EmptyAnnotations,
                               call.id))

\* the info icon of a search result, which the visible overlay covers
infoIconClick(i) ==
    /\ modalDisplay = "none"
    /\ i \in DOMAIN searchList.items
    /\ showTermDetailsModal(searchList.items[i], ResultRef(i))

\* the info button of a parent or child entry of the overlay
relationshipInfoClick(list, i) ==
    /\ modalDisplay = "block"
    /\ i \in DOMAIN Overlay[list].items
    /\ showTermDetailsModal(Overlay[list].items[i], RelationRef(list, i, relationsRender))

-----------------------------------------------------------------------------
(* Detail Controller: the copy of the genes *)

\* the most clipboard writes and feedback timers pending together
MaxCopies == 2

\* the click listener of #copyGenesBtn, which setupGeneCopyFunctionality adds
\* to the element it creates: copyGenesToClipboard up to its await
copyGenesToClipboard ==
    /\ modalDisplay = "block"
    /\ copyButton.element > 0
    /\ Len(clipboardWrites) + Len(copyTimers) < MaxCopies
    /\ IF Len(modalGenes.items) = 0
       THEN /\ lastAlert' = "No genes to copy."
            /\ UNCHANGED clipboardWrites
       ELSE /\ clipboardWrites' =
                  Append(clipboardWrites,
                         Join([k \in DOMAIN modalGenes.items |-> trim(modalGenes.items[k])], "||"))
            /\ UNCHANGED lastAlert
    /\ lastModalEvent' = ModalEvent("copy", "copyGenesBtn")
    /\ UNCHANGED <<selectionVars, pendingCleanups, searchVars, modalDisplay, currentTerm,
                   modalParents, modalChildren, parserVars, frequentTerms, overlayDom, overlayCalls,
                   copyButton, copyTimers, clipboard, termFetchLog, sectionOwner,
                   lastOp, searchHistory>>

\* showCopySuccessFeedback, on the element #copyGenesBtn of this moment
showCopySuccessFeedback ==
    /\ copyButton' = [copyButton EXCEPT !.html = CheckHTML]
    /\ copyTimers' = Append(copyTimers, [element |-> copyButton.element,
                                         html |-> copyButton.html])

\* copyGenesToClipboard resumes after navigator.clipboard.writeText
clipboardWriteSettles(i, written) ==
    /\ i \in DOMAIN clipboardWrites
    /\ clipboardWrites' = SubSeq(clipboardWrites, 1, i - 1)
                              \o SubSeq(clipboardWrites, i + 1, Len(clipboardWrites))
    /\ IF written
       THEN /\ clipboard' = clipboardWrites[i]
            /\ showCopySuccessFeedback
            /\ UNCHANGED lastAlert
       ELSE /\ lastAlert' = "Failed to copy genes to clipboard."
            /\ UNCHANGED <<clipboard, copyButton, copyTimers>>
    /\ UNCHANGED <<selectionVars, pendingCleanups, searchVars, modalDisplay, currentTerm,
                   modalParents, modalChildren, parserVars, frequentTerms, overlayDom, overlayCalls,
                   overlayHistory, lastOp, searchHistory>>

\* the 1200ms timer of showCopySuccessFeedback that was set first fires: it
\* writes the innerHTML of the element it was set for, in the page or not
copyFeedbackExpires ==
    /\ Len(copyTimers) > 0
    /\ copyTimers' = Tail(copyTimers)
    /\ copyButton' = IF Head(copyTimers).element = copyButton.element
                     THEN [copyButton EXCEPT !.html = Head(copyTimers).html]
                     ELSE copyButton
    /\ UNCHANGED <<selectionVars, pendingCleanups, searchVars, modalDisplay, currentTerm,
                   modalParents, modalChildren, parserVars, frequentTerms, overlayDom, overlayCalls,
                   clipboardWrites, clipboard, lastAlert, overlayHistory, lastOp,
                   searchHistory>>

-----------------------------------------------------------------------------
(* The specifications: the Selection Store and the export with a result list *)
(* and the overlay on screen; the Search Controller; parseSynonyms; the       *)
(* Detail Controller with the result list of OverlayRows on screen.           *)

\* the overlay and the state of the Detail Controller, as in o
InitOverlay(o) ==
    /\ modalDisplay = o.display
    /\ modalName = o.name
    /\ modalId = o.id
    /\ modalDefinition = o.definition
    /\ modalSynonyms = o.synonyms
    /\ modalParents = o.parents
    /\ modalChildren = o.children
    /\ modalGenes = o.genes
    /\ modalDiseases = o.diseases
    /\ isLoadingModalData = o.loading
    /\ copyButton = o.button
    /\ relationsRender = o.render
    /\ sectionOwner = o.owner
    /\ modalCalls = {}
    /\ copyTimers = <<>>
    /\ clipboardWrites = <<>>
    /\ clipboard = ""
    /\ lastAlert = ""
    /\ termFetchLog = {}
    /\ lastModalEvent = NoModalEvent
    /\ synonymsInput = JsUndefined
    /\ synonymsParsed = NotParsed
    /\ frequentTerms = FREQUENT_TERMS

\* the overlay once the call that opened it on the first result has ended
OverlayOfFirstResult ==
    LET term == processSearchResults(SampleRows)[1] IN
    afterAnnotations(fromStart(ClosedOverlay, term, 1).o, AnnotationsOf(term.id), 1).o

(* The Selection Store and the export, with a result list and an overlay on  *)
(* screen: the state after initializeApplication, a search that returned     *)
(* SampleRows and the detail view opened on its first result.                *)

\* the ids of the terms that the favorites, the result list and the overlay offer
IdsOnScreen ==
    {FREQUENT_TERMS[i].id : i \in 1..MaxFavIndex}
        \cup {term.id : term \in Range(processSearchResults(SampleRows))}
        \cup {item.id : item \in Range(SampleParents) \cup Range(SampleChildren)}

InitSelectionStore ==
    /\ selectedTerms = <<>>
    /\ selectionList = renderedList(<<>>)
    /\ selectionCount = countLabel(<<>>)
    /\ exportBtnDisabled = exportDisabled(<<>>)
    /\ pendingCleanups = 0
    /\ lastOp = [op |-> "init", arg |-> "none", pre |-> <<>>, out |-> "none"]

InitSelection ==
    /\ InitSelectionStore
    /\ searchInputValue = <<"s", "e", "i">>
    /\ searchList = Items(processSearchResults(SampleRows))
    /\ searchCount = ToString(Len(SampleRows)) \o " terms found"
    /\ searchTimeout = NoTimer
    /\ timers = {}
    /\ nextTimerId = 1
    /\ requests = {}
    /\ now = 0
    /\ inputLog = <<>>
    /\ fetchLog = <<>>
    /\ lastRender = NoRender
    /\ currentTerm = processSearchResults(SampleRows)[1]
    /\ currentRef = ResultRef(1)
    /\ nextCallId = 2
    /\ InitOverlay(OverlayOfFirstResult)

NextSelection ==
    \/ \E i \in 1..Len(SampleRows) : searchResultClick(i)
    \/ \E i \in 1..MaxFavIndex : favoriteClick(i)
    \/ \E item \in Range(SampleParents) \cup Range(SampleChildren) : relationshipAddClick(item)
    \/ addCurrentTermFromModal
    \/ closeModal
    \/ \E termId \in IdsOnScreen : removeTermFromSelection(termId)
    \/ clearAllSelections
    \/ exportSelectedTerms
    \/ exportCleanup

SpecSelection == InitSelection /\ [][NextSelection]_vars

\* the Search Controller, from the state after initializeApplication
\* the values the search field takes
InputValues == { <<>>, <<" ">>, <<"a">>, <<" ", "b", " ">> }

\* the state after initializeApplication
InitSearch ==
    /\ InitSelectionStore
    /\ searchInputValue = <<>>
    /\ searchList = Placeholder("EMPTY_SEARCH")
    /\ searchCount = UI_STATES_count("EMPTY_SEARCH")
    /\ searchTimeout = NoTimer
    /\ timers = {}
    /\ nextTimerId = 1
    /\ requests = {}
    /\ now = 0
    /\ currentTerm = NoTerm
    /\ currentRef = NoRef
    /\ nextCallId = 1
    /\ InitOverlay(ClosedOverlay)
    /\ inputLog = <<>>
    /\ fetchLog = <<>>
    /\ lastRender = NoRender

NextSearch ==
    \/ \E value \in InputValues : handleSearchInput(value)
    \/ \E timer \in timers : debounceTimerFires(timer)
    \/ \E request \in requests, outcome \in FetchOutcomes : searchFetchSettles(request, outcome)
    \/ \E request \in requests, body \in JsonOutcomes : searchJsonSettles(request, body)
    \/ tick

SpecSearch == InitSearch /\ [][NextSearch]_vars

\* parseSynonyms, on the values of SynonymInputs
NextSynonyms ==
    \/ \E synonyms \in SynonymInputs : synonymsArrive(synonyms)
    \/ parseSynonymsCall

SpecSynonyms == InitSearch /\ [][NextSynonyms]_vars

\* the Detail Controller
InitModal ==
    /\ InitSelectionStore
    /\ searchInputValue = <<"s", "e", "i">>
    /\ searchList = Items(processSearchResults(OverlayRows))
    /\ searchCount = ToString(Len(OverlayRows)) \o " terms found"
    /\ searchTimeout = NoTimer
    /\ timers = {}
    /\ nextTimerId = 1
    /\ requests = {}
    /\ now = 0
    /\ inputLog = <<>>
    /\ fetchLog = <<>>
    /\ lastRender = NoRender
    /\ currentTerm = NoTerm
    /\ currentRef = NoRef
    /\ nextCallId = 1
    /\ InitOverlay(ClosedOverlay)

NextModal ==
    \/ \E i \in 1..Len(OverlayRows) : infoIconClick(i)
    \/ relationshipInfoClick("parents", 1)
    \/ addCurrentTermFromModal
    \/ closeModal
    \/ handleWindowClick("termModal")
    \/ \E call \in modalCalls, outcome \in FetchOutcomes : definitionFetchSettles(call, outcome)
    \/ \E call \in modalCalls, parsed \in BOOLEAN : definitionJsonSettles(call, parsed)
    \/ \E call \in modalCalls, outcome \in FetchOutcomes : synonymsFetchSettles(call, outcome)
    \/ \E call \in modalCalls, parsed \in BOOLEAN : synonymsJsonSettles(call, parsed)
    \/ \E call \in modalCalls, outcome \in FetchOutcomes : annotationFetchSettles(call, outcome)
    \/ \E call \in modalCalls, parsed \in BOOLEAN : annotationJsonSettles(call, parsed)

SpecModal == InitModal /\ [][NextModal]_vars

\* the overlay open on the first result: the copy of its genes, its close
\* and the clicks that open it again on that result
NextCopy ==
    \/ copyGenesToClipboard
    \/ \E i \in 1..MaxCopies, written \in BOOLEAN : clipboardWriteSettles(i, written)
    \/ copyFeedbackExpires
    \/ closeModal
    \/ handleWindowClick("termModal")
    \/ infoIconClick(1)
    \/ \E call \in modalCalls, outcome \in FetchOutcomes : annotationFetchSettles(call, outcome)
    \/ \E call \in modalCalls, parsed \in BOOLEAN : annotationJsonSettles(call, parsed)

SpecCopy == InitSelection /\ [][NextCopy]_vars

\* the favorites beside the Selection Store and the overlay: the clicks on
\* the first favorites entry, the operations of the store, and the detail view
\* closed and opened again on the result whose definition and synonyms are
\* fetched
NextFavorites ==
    \/ favoriteClick(1)
    \/ removeTermFromSelection(FREQUENT_TERMS[1].id)
    \/ clearAllSelections
    \/ exportSelectedTerms
    \/ exportCleanup
    \/ infoIconClick(2)
    \/ closeModal
    \/ \E call \in modalCalls, outcome \in FetchOutcomes : definitionFetchSettles(call, outcome)
    \/ \E call \in modalCalls, parsed \in BOOLEAN : definitionJsonSettles(call, parsed)
    \/ \E call \in modalCalls, outcome \in FetchOutcomes : synonymsFetchSettles(call, outcome)
    \/ \E call \in modalCalls, parsed \in BOOLEAN : synonymsJsonSettles(call, parsed)
    \/ \E call \in modalCalls, outcome \in FetchOutcomes : annotationFetchSettles(call, outcome)
    \/ \E call \in modalCalls, parsed \in BOOLEAN : annotationJsonSettles(call, parsed)

SpecFavorites == InitSelection /\ [][NextFavorites]_vars

\* the detail view, from the overlay open on the first result: closed and
\* opened again on a result or on the parent entry it shows
NextDetail ==
    \/ \E i \in 1..Len(SampleRows) : infoIconClick(i)
    \/ relationshipInfoClick("parents", 1)
    \/ closeModal
    \/ \E call \in modalCalls, outcome \in FetchOutcomes : definitionFetchSettles(call, outcome)
    \/ \E call \in modalCalls, parsed \in BOOLEAN : definitionJsonSettles(call, parsed)
    \/ \E call \in modalCalls, outcome \in FetchOutcomes : synonymsFetchSettles(call, outcome)
    \/ \E call \in modalCalls, parsed \in BOOLEAN : synonymsJsonSettles(call, parsed)
    \/ \E call \in modalCalls, outcome \in FetchOutcomes : annotationFetchSettles(call, outcome)
    \/ \E call \in modalCalls, parsed \in BOOLEAN : annotationJsonSettles(call, parsed)

SpecDetail == InitSelection /\ [][NextDetail]_vars

\* the page from the state after initializeApplication: a search typed while
\* no search call is running, the detail view opened on the second result
\* while no call of it is running, and the Selection Store. Time passes
\* while a debounce timer is set.
MaxPortalInputs == 1

NextPortal ==
    \/ Len(inputLog) < MaxPortalInputs /\ requests = {} /\ handleSearchInput(<<"a">>)
    \/ \E timer \in timers : debounceTimerFires(timer)
    \/ \E request \in requests, outcome \in FetchOutcomes : searchFetchSettles(request, outcome)
    \/ \E request \in requests, body \in JsonOutcomes : searchJsonSettles(request, body)
    \/ timers # {} /\ tick
    \/ searchResultClick(2)
    \/ removeTermFromSelection(MicrocephalyRow[1])
    \/ clearAllSelections
    \/ modalCalls = {} /\ infoIconClick(2)
    \/ addCurrentTermFromModal
    \/ closeModal
    \/ \E call \in modalCalls, outcome \in FetchOutcomes : definitionFetchSettles(call, outcome)
    \/ \E call \in modalCalls, parsed \in BOOLEAN : definitionJsonSettles(call, parsed)
    \/ \E call \in modalCalls, outcome \in FetchOutcomes : synonymsFetchSettles(call, outcome)
    \/ \E call \in modalCalls, parsed \in BOOLEAN : synonymsJsonSettles(call, parsed)
    \/ \E call \in modalCalls, outcome \in FetchOutcomes : annotationFetchSettles(call, outcome)
    \/ \E call \in modalCalls, parsed \in BOOLEAN : annotationJsonSettles(call, parsed)

SpecPortal == InitSearch /\ [][NextPortal]_vars

-----------------------------------------------------------------------------
(* Properties of the Selection Store and of the export (SpecSelection) *)

\* C1: in every reachable state the Selection Store holds at most one term
\* per distinct id.
C1_AtMostOneTermPerId ==
    \A i, j \in DOMAIN selectedTerms :
        selectedTerms[i].id = selectedTerms[j].id => i = j

\* an add of an id already in a store of several terms has just been refused
C1_Witness ==
    /\ Len(selectedTerms) >= 2
    /\ lastOp.op = "add"
    /\ \E i \in DOMAIN lastOp.pre : lastOp.pre[i].id = lastOp.arg.id

\* C2: after addTermToSelection(term), the store is the store before when it
\* held a term of the same id, whatever the other fields of the two records,
\* and otherwise the store before with the term appended at the end.
C2_AddIsNoOpOrAppend ==
    lastOp.op = "add" =>
        IF \E i \in DOMAIN lastOp.pre : lastOp.pre[i].id = lastOp.arg.id
        THEN selectedTerms = lastOp.pre
        ELSE selectedTerms = Append(lastOp.pre, lastOp.arg)

\* the add of a record that differs from the stored record of the same id
\* (the favorite stub and the search result of Seizure) has just run
C2_Witness ==
    /\ lastOp.op = "add"
    /\ \E i \in DOMAIN lastOp.pre :
          /\ lastOp.pre[i].id = lastOp.arg.id
          /\ DOMAIN lastOp.pre[i] # DOMAIN lastOp.arg
    /\ Len(lastOp.pre) >= 2

\* C3: after removeTermFromSelection(id), the store is the store before
\* without the entry of that id, the other entries in their previous order;
\* it is the store before when no entry had that id.
C3_RemoveDeletesExactlyTheId ==
    lastOp.op = "remove" =>
        LET pre == lastOp.pre IN
        IF \A i \in DOMAIN pre : pre[i].id # lastOp.arg
        THEN selectedTerms = pre
        ELSE \E k \in DOMAIN pre :
                /\ pre[k].id = lastOp.arg
                /\ selectedTerms = SubSeq(pre, 1, k - 1) \o SubSeq(pre, k + 1, Len(pre))

\* the middle entry of a store of three has just been removed
C3_Witness ==
    /\ lastOp.op = "remove"
    /\ Len(lastOp.pre) = 3
    /\ lastOp.pre[2].id = lastOp.arg
    /\ Len(selectedTerms) = 2

\* C4: in every reachable state the export button is enabled if and only if
\* the store is not empty, and the count label is the size followed by
\* " terms".
C4_ExportEnabledIffNonEmpty ==
    /\ ~exportBtnDisabled <=> Len(selectedTerms) > 0
    /\ selectionCount = ToString(Len(selectedTerms)) \o " terms"

\* a remove has left one term of two: the button stays enabled
C4_Witness ==
    /\ lastOp.op = "remove"
    /\ Len(lastOp.pre) = 2
    /\ Len(selectedTerms) = 1
    /\ ~exportBtnDisabled
    /\ selectionCount = "1 terms"

\* C5: clearAllSelections leaves the store with size 0 and the export button
\* disabled.
C5_ClearEmptiesAndDisables ==
    lastOp.op = "clear" => Len(selectedTerms) = 0 /\ exportBtnDisabled

\* a store of several terms has just been cleared
C5_Witness ==
    /\ lastOp.op = "clear"
    /\ Len(lastOp.pre) >= 2
    /\ ~exportDisabled(lastOp.pre)

\* the text the claim C6 describes: every line, the last one too, ends with a
\* newline
RECURSIVE LinesEachWithNewline(_)
LinesEachWithNewline(terms) ==
    IF Len(terms) = 0 THEN ""
    ELSE Head(terms).name \o "\t" \o Head(terms).id \o "\n"
            \o LinesEachWithNewline(Tail(terms))

\* C6: the export of a non-empty store is the text with, per term in store
\* order, the name, a tab, the id and a newline.
C6_ExportEveryLineEndsWithNewline ==
    (lastOp.op = "export" /\ Len(lastOp.pre) > 0) =>
        lastOp.out = LinesEachWithNewline(lastOp.pre)

\* C6, on the store [Seizure/HP:0001250, Microcephaly/HP:0000252]
C6_ExportOfTheExampleStore ==
    (/\ lastOp.op = "export"
     /\ Len(lastOp.pre) = 2
     /\ lastOp.pre[1].id = "HP:0001250"
     /\ lastOp.pre[2].id = "HP:0000252")
        => lastOp.out = "Seizure\tHP:0001250\nMicrocephaly\tHP:0000252\n"

\* C7: a step of exportSelectedTerms on an empty store changes nothing and
\* produces no download; on a non-empty store it produces a download and
\* leaves the store empty and the export button disabled.
C7_ExportNoOpOrDiscardsAll ==
    [][(lastOp' # lastOp /\ lastOp'.op = "export") =>
         IF Len(selectedTerms) = 0
         THEN /\ UNCHANGED <<selectionVars, pendingCleanups, searchVars, modalVars>>
              /\ lastOp'.out = "none"
         ELSE /\ lastOp'.out # "none"
              /\ pendingCleanups' = pendingCleanups + 1
              /\ selectedTerms' = <<>>
              /\ exportBtnDisabled']_vars

\* a store of several terms has just been exported
C7_Witness ==
    /\ lastOp.op = "export"
    /\ Len(lastOp.pre) >= 2
    /\ lastOp.out # "none"
    /\ selectedTerms = <<>>

-----------------------------------------------------------------------------
(* Properties of the Search Controller (SpecSearch) *)

\* C8: a step that leaves the search field empty or blank issues no search
\* call, whether it is the input event itself or a later step, a debounce
\* timer of an earlier keystroke included; the input event that empties the
\* field puts the results area in the empty-search state.
C8_NoSearchCallWhileQueryEmpty ==
    [][Trim(searchInputValue') = <<>> =>
         /\ fetchLog' = fetchLog
         /\ inputLog' # inputLog => searchList' = Placeholder("EMPTY_SEARCH")]_vars

\* C9: the timer of an input event that another non-empty event follows by
\* less than DEBOUNCE_DELAY never fires; a search call is the firing of the
\* timer of one input event, at least DEBOUNCE_DELAY after it and with its
\* query, and no timer fires twice; once no timer is pending, exactly one
\* search call has fired for the burst that ends the input events, the one of
\* its last event.
FetchesOfTimer(id) == {k \in DOMAIN fetchLog : fetchLog[k].timer = id}

IsBurstStep(k) ==
    /\ k \in DOMAIN inputLog
    /\ k + 1 \in DOMAIN inputLog
    /\ inputLog[k].query # <<>>
    /\ inputLog[k + 1].query # <<>>
    /\ inputLog[k + 1].t - inputLog[k].t < DEBOUNCE_DELAY

\* the events of the burst that ends the log: the last event and the events
\* before it that each the next one follows by less than DEBOUNCE_DELAY
LastBurst ==
    {k \in DOMAIN inputLog :
        /\ inputLog[Len(inputLog)].query # <<>>
        /\ \A j \in k..(Len(inputLog) - 1) : IsBurstStep(j)}

C9_OneSearchCallPerBurst ==
    /\ \A k \in DOMAIN inputLog : IsBurstStep(k) => FetchesOfTimer(inputLog[k].timer) = {}
    /\ \A f \in DOMAIN fetchLog :
          /\ \E k \in DOMAIN inputLog :
                /\ inputLog[k].timer = fetchLog[f].timer
                /\ inputLog[k].query = fetchLog[f].query
                /\ fetchLog[f].t >= inputLog[k].t + DEBOUNCE_DELAY
          /\ FetchesOfTimer(fetchLog[f].timer) = {f}
    /\ (timers = {} /\ LastBurst # {}) =>
          /\ Cardinality(UNION {FetchesOfTimer(inputLog[k].timer) : k \in LastBurst}) = 1
          /\ Cardinality(FetchesOfTimer(inputLog[Len(inputLog)].timer)) = 1

\* a burst of two events with different queries, the second less than
\* DEBOUNCE_DELAY after the first and after time has passed, has had its
\* search call
C9_Witness ==
    /\ Len(inputLog) = 2
    /\ IsBurstStep(1)
    /\ inputLog[1].t < inputLog[2].t
    /\ inputLog[1].query # inputLog[2].query
    /\ timers = {}
    /\ Len(fetchLog) = 1
    /\ fetchLog[1].query = inputLog[2].query

\* C10: while the search field is empty or blank the results area shows the
\* empty-search state: no outcome of a search that was pending or in flight
\* when the field was emptied is rendered.
C10_IdleWhileQueryEmpty ==
    Trim(searchInputValue) = <<>> => searchList = Placeholder("EMPTY_SEARCH")

\* the search calls that have been issued and have not completed
InFlight == {request.id : request \in requests}

\* C11: what the results area holds is never the response of a search call
\* issued before another call that has completed too: the response of the
\* earlier query never replaces the rendering of the later one, and once
\* every call has completed the outcome rendered last is the one of the call
\* issued last.
C11_LatestIssuedQueryWins ==
    \A k, l \in DOMAIN fetchLog :
        (fetchLog[k].timer = lastRender.timer /\ k < l) =>
            fetchLog[l].timer \in InFlight

\* C12: in every reachable state in which a search call is in flight, the
\* results area shows the loading state.
C12_LoadingWhileInFlight ==
    InFlight # {} => searchList = Placeholder("LOADING")

\* what the claim C13 has the results area hold after a response
ExpectedRender(fetch, body) ==
    IF fetch # "ok" \/ ~body.parsed
    THEN [list |-> Placeholder("ERROR"), count |-> "0 terms found", n |-> 0]
    ELSE IF Len(body.data) >= 4 /\ Len(body.data[4]) >= 1
    THEN [list |-> "results", count |-> ToString(Len(body.data[4])) \o " terms found",
          n |-> Len(body.data[4])]
    ELSE [list |-> Placeholder("NO_RESULTS"), count |-> "0 terms found", n |-> 0]

\* C13: a step renders a search outcome exactly when it completes a search
\* call, and then renders one outcome, the one of that call: with one row or
\* more, the results in the order of the rows, one per row, and the number of
\* rows as the count; with no row or no fourth element, the no-results state;
\* after a rejected fetch, a response that is not ok or a body that does not
\* parse, the error state.
C13_OneOutcomePerCompletedRequest ==
    [][LET completed == InFlight \ {request.id : request \in requests'} IN
       /\ completed # {} <=> lastRender' # lastRender
       /\ completed # {} =>
            LET expected == ExpectedRender(lastRender'.fetch, lastRender'.body) IN
            /\ completed = {lastRender'.timer}
            /\ searchCount' = expected.count
            /\ IF expected.n = 0
               THEN searchList' = expected.list
               ELSE /\ searchList'.state = "ITEMS"
                    /\ Len(searchList'.items) = expected.n
                    /\ \A k \in 1..expected.n :
                          /\ searchList'.items[k].id = lastRender'.body.data[4][k][1]
                          /\ searchList'.items[k].name = lastRender'.body.data[4][k][2]]_vars

\* a response of two rows has just been rendered as two results
C13_Witness ==
    /\ lastRender.outcome = "RESULTS"
    /\ InFlight = {}
    /\ searchList.state = "ITEMS"
    /\ Len(searchList.items) = 2
    /\ searchCount = "2 terms found"

-----------------------------------------------------------------------------
(* Properties of parseSynonyms (SpecSynonyms) *)

\* the characters of str from position i to position j are all of the set
AllCharsIn(str, i, j, set) == \A k \in i..j : SubSeq(str, k, k) \in set

Blank == {" ", "\t", "\n"}

\* an element of the output: not empty, no white space at either end
IsTrimmed(str) ==
    /\ Len(str) > 0
    /\ SubSeq(str, 1, 1) \notin Blank
    /\ SubSeq(str, Len(str), Len(str)) \notin Blank

\* out lies in str at position i
LiesAt(out, str, i) ==
    /\ i + Len(out) - 1 <= Len(str)
    /\ SubSeq(str, i, i + Len(out) - 1) = out

\* out is the pieces of str between its semicolons that are not blank, in
\* the order of str, each without the white space around it
IsPiecesOf(out, str) ==
    \E at \in [DOMAIN out -> 1..Len(str)] :
        /\ \A k \in DOMAIN out :
              /\ LiesAt(out[k], str, at[k])
              /\ AllCharsIn(out[k], 1, Len(out[k]), {SubSeq(str, i, i) : i \in 1..Len(str)} \ {";"})
        /\ \A k \in DOMAIN out : k + 1 \in DOMAIN out =>
              /\ at[k] + Len(out[k]) <= at[k + 1]
              /\ AllCharsIn(str, at[k] + Len(out[k]), at[k + 1] - 1, Blank \cup {";"})
              /\ \E i \in (at[k] + Len(out[k]))..(at[k + 1] - 1) : SubSeq(str, i, i) = ";"
        /\ IF out = <<>>
           THEN AllCharsIn(str, 1, Len(str), Blank \cup {";"})
           ELSE /\ AllCharsIn(str, 1, at[1] - 1, Blank \cup {";"})
                /\ AllCharsIn(str, at[Len(out)] + Len(out[Len(out)]), Len(str), Blank \cup {";"})

\* out is the elements of the array that are not blank, in the order of the
\* array, each without the white space around it
IsElementsOf(out, elems) ==
    \E from \in [DOMAIN out -> DOMAIN elems] :
        /\ \A k \in DOMAIN out : k + 1 \in DOMAIN out => from[k] < from[k + 1]
        /\ \A k \in DOMAIN out :
              LET str == String(elems[from[k]]) IN
              \E i \in 1..Len(str) :
                  /\ LiesAt(out[k], str, i)
                  /\ AllCharsIn(str, 1, i - 1, Blank)
                  /\ AllCharsIn(str, i + Len(out[k]), Len(str), Blank)
        /\ \A e \in DOMAIN elems \ {from[k] : k \in DOMAIN out} :
              AllCharsIn(String(elems[e]), 1, Len(String(elems[e])), Blank)

\* C14: parseSynonyms gives <<"tall stature", "long fingers">> for the blob
\* "tall stature; long fingers" and for the array of the two strings; for
\* every input, each element of the output is trimmed and not empty, the
\* output holds the pieces (of a blob) or the elements (of an array) that are
\* not blank, in the order of the input; an absent or empty input gives the
\* empty sequence.
C14_ParseSynonyms ==
    synonymsParsed.done =>
        LET out == synonymsParsed.value IN
        /\ synonymsInput \in {JsString("tall stature; long fingers"),
                              JsArray(<<JsString("tall stature"), JsString("long fingers")>>)}
              => out = <<"tall stature", "long fingers">>
        /\ \A k \in DOMAIN out : IsTrimmed(out[k])
        /\ synonymsInput.type = "string" => IsPiecesOf(out, synonymsInput.str)
        /\ synonymsInput.type = "array" => IsElementsOf(out, synonymsInput.elems)
        /\ synonymsInput \in {JsUndefined, JsNull, JsString(""), JsArray(<<>>)} => out = <<>>

\* the blob of the example has been parsed
C14_Witness ==
    /\ synonymsParsed.done
    /\ synonymsInput = JsString("tall stature; long fingers")
    /\ synonymsParsed.value = <<"tall stature", "long fingers">>

-----------------------------------------------------------------------------
(* Properties of the Detail Controller (SpecModal, SpecCopy) *)

\* the step is the click of an info icon
IsInfoClick == lastModalEvent' # lastModalEvent /\ lastModalEvent'.op = "info"

\* C15: the overlay never sends a request for the annotations, the parents or
\* the children of a term without id, and the click that opens the overlay
\* on such a term puts the "No HP ID available" placeholder in the genes and
\* diseases sections in the same step, with no response waited for.
C15_NoIdPlaceholderAtOnce ==
    [][/\ \A request \in termFetchLog' :
             request.purpose = "annotations" => request.hpId # ""
       /\ (IsInfoClick /\ currentTerm'.id = "") =>
             /\ modalGenes' = Placeholder("No HP ID available")
             /\ modalDiseases' = Placeholder("No HP ID available")
             /\ \A call \in modalCalls' : call.term.id # ""]_vars

\* the calls of showTermDetailsModal that are running
Running(calls) == {call.id : call \in calls}

\* C16: when a fetch of fetchJAXAnnotations is rejected or a response it tests
\* is not ok, the call ends (its fetches have no json stage) and the genes and
\* diseases sections show "Unable to load genes" and "Unable to load
\* diseases": neither the loading placeholders nor the "No associated ...
\* found" of an empty response.
C16_UnableToLoadAfterFailedFetch ==
    [][\A call \in modalCalls :
         (call.pc = "annotations fetch" /\ call.id \notin Running(modalCalls')) =>
            /\ modalGenes' = showModalErrorState(Overlay, call.id).genes
            /\ modalDiseases' = showModalErrorState(Overlay, call.id).diseases]_vars

\* the step resumes the call: it ends it or moves it to its next await
Resumes(call) ==
    \A next \in modalCalls' :
        next.id = call.id => next.pc # call.pc \/ next.left # call.left

\* C17: a call of showTermDetailsModal that is no longer the last one opened
\* changes nothing of what the overlay shows when it resumes, and once no
\* call is running every part of the overlay was written by the call that
\* set AppState.currentTerm.
C17_LateResponsesLeaveTheOverlay ==
    [][/\ \A call \in modalCalls :
             (Resumes(call) /\ call.id # sectionOwner.title) =>
                UNCHANGED <<modalDisplay, modalParents, modalChildren, overlayDom>>
       /\ (modalCalls' = {} /\ currentTerm' # NoTerm) =>
             \A part \in DOMAIN sectionOwner' :
                 sectionOwner'[part] = sectionOwner'.title]_vars

\* the step is a click on the close button or on the backdrop of the overlay
IsCloseClick ==
    /\ lastModalEvent' # lastModalEvent
    /\ lastModalEvent'.target \in {"close button", "termModal"}

\* C18: a click on the close button or on the backdrop of the visible overlay
\* hides the overlay and sets AppState.currentTerm to null.
C18_CloseHidesAndClears ==
    [][IsCloseClick => modalDisplay' = "none" /\ currentTerm' = NoTerm]_vars

\* the backdrop of the overlay has been clicked while the call that opened
\* it on a term was running
C18_Witness ==
    /\ lastModalEvent.op = "window click"
    /\ modalCalls # {}
    /\ sectionOwner.title \in Running(modalCalls)
    /\ modalDisplay = "none"
    /\ currentTerm = NoTerm

\* the text the overlay shows for the id and the name of a term
ShownId(term) == IF term.id # "" THEN term.id ELSE "No ID available"
ShownName(term) == IF term.name # "" THEN term.name ELSE "No name available"

\* the step is a click on the "add current term" button of the overlay
IsAddCurrentClick ==
    lastModalEvent' # lastModalEvent /\ lastModalEvent'.op = "add current"

\* C19: a click on the "add current term" button of the visible overlay leaves
\* in the Selection Store the term whose name and id the overlay shows, added
\* at the end unless a term of its id was there, and hides the overlay; so it
\* does when the overlay was opened by the info button of a parent entry.
C19_AddCurrentAddsTheShownTerm ==
    [][(IsAddCurrentClick /\ modalDisplay = "block") =>
         /\ modalDisplay' = "none"
         /\ \E k \in DOMAIN selectedTerms' :
               /\ ShownId(selectedTerms'[k]) = modalId
               /\ ShownName(selectedTerms'[k]) = modalName
         /\ \/ selectedTerms' = selectedTerms
            \/ /\ Len(selectedTerms') = Len(selectedTerms) + 1
               /\ SubSeq(selectedTerms', 1, Len(selectedTerms)) = selectedTerms
               /\ ShownId(selectedTerms'[Len(selectedTerms')]) = modalId]_vars

\* the gene labels of the overlay, joined by "||"
RECURSIVE GeneLabels(_)
GeneLabels(genes) ==
    IF Len(genes) = 0 THEN ""
    ELSE IF Len(genes) = 1 THEN genes[1]
    ELSE genes[1] \o "||" \o GeneLabels(Tail(genes))

\* C20: the click on the copy button of an overlay that shows genes starts one
\* write to the clipboard, of the gene labels in their order joined by "||";
\* the success indicator is transient: once no write and no timer of the
\* feedback is pending, which nothing but a new click changes, the button
\* shows its original content again.
C20_CopyFeedbackIsTransient ==
    [][/\ (lastModalEvent' # lastModalEvent /\ lastModalEvent'.op = "copy"
             /\ Len(modalGenes.items) > 0) =>
                clipboardWrites' = Append(clipboardWrites, GeneLabels(modalGenes.items))
       /\ (Len(clipboardWrites') = 0 /\ Len(copyTimers') = 0) =>
               copyButton'.html = CopyButtonHTML]_vars


-----------------------------------------------------------------------------
(* Properties of the favorites (SpecFavorites) *)

\* C21: the click on a favorites entry runs the add of the Selection Store on
\* the {id, name} pair of that entry and nothing else: it sends no request to
\* the search service or to the term service and starts no timer and no call;
\* and after every step, of the store or of the detail view, the array
\* FREQUENT_TERMS holds the pairs it was written with, in their order.
C21_FavoritesOnlyAdd ==
    [][/\ frequentTerms' = FREQUENT_TERMS
       /\ \A i \in DOMAIN FREQUENT_TERMS :
             (lastOp' # lastOp /\ lastOp'.op = "add" /\ lastOp'.arg = FREQUENT_TERMS[i]) =>
                /\ selectedTerms' = IF AlreadySelected(selectedTerms, FREQUENT_TERMS[i])
                                    THEN selectedTerms
                                    ELSE Append(selectedTerms, FREQUENT_TERMS[i])
                /\ UNCHANGED <<requests, timers, fetchLog, modalCalls, termFetchLog>>
                /\ UNCHANGED <<searchList, modalDisplay, currentTerm, overlayDom>>]_vars

\* the first favorites entry has been clicked and is in the store, after the
\* detail view had fetched the definition of the second result and written it
\* on the term object
C21_Witness ==
    /\ lastOp.op = "add"
    /\ lastOp.arg = FREQUENT_TERMS[1]
    /\ selectedTerms = <<FREQUENT_TERMS[1]>>
    /\ \E request \in termFetchLog : request.purpose = "definition"
    /\ definitionOf(searchList.items[2]) # ""


-----------------------------------------------------------------------------
(* Properties of the detail view (SpecDetail) *)

\* the requests that the step sends for the definition of a term
NewDefinitionRequests ==
    {request \in termFetchLog' \ termFetchLog : request.purpose = "definition"}

\* the call is at pc before the step, and the step takes it past stage: to a
\* later await or to its end
Passes(call, pc, stage) ==
    /\ call.pc = pc
    /\ Resumes(call)
    /\ \A next \in modalCalls' : next.id = call.id => next.pc \notin stage

\* C22: the click that opens the detail view on a term with a definition
\* shows that definition and sends no request for it; on a term without
\* definition it sends one request for it, which no later step repeats; and
\* the call shows, when the request has settled, the definition of the
\* response, "No definition available" for a response without one, or
\* "Definition not available" after a failure.
C22_DefinitionShownOrFetchedOnce ==
    [][/\ (IsInfoClick /\ definitionOf(currentTerm') # "") =>
             /\ modalDefinition' = definitionOf(currentTerm')
             /\ NewDefinitionRequests = {}
       /\ (IsInfoClick /\ definitionOf(currentTerm') = "") =>
             NewDefinitionRequests =
                 {TermRequest("term", currentTerm'.id, nextCallId, "definition")}
       /\ ~IsInfoClick => NewDefinitionRequests = {}
       /\ \A call \in modalCalls :
             /\ Passes(call, "definition fetch", {"definition fetch", "definition json"}) =>
                    modalDefinition' = "Definition not available"
             /\ Passes(call, "definition json", {"definition json"}) =>
                    modalDefinition' \in
                        {"Definition not available",
                         IF TermBodyOf(call.term.id).definition # ""
                         THEN TermBodyOf(call.term.id).definition
                         ELSE "No definition available"}]_vars

\* the detail view was opened on the second result, which had no definition:
\* one request was sent for it and the overlay shows the definition of the
\* response
C22_Witness ==
    /\ modalId = "HP:0000252"
    /\ modalDefinition = TermBodyOf("HP:0000252").definition
    /\ Cardinality({request \in termFetchLog : request.purpose = "definition"}) = 1
    /\ modalCalls = {}


\* C23: the click that opens the detail view again on a term object whose
\* definition fetch has failed, which left "Definition not available" for
\* it, sends the request for the definition again.
C23_ReopenRetriesFailedFetch ==
    [][(IsInfoClick /\ definitionOf(currentTerm') = "Definition not available") =>
          NewDefinitionRequests # {}]_vars


\* the term objects of the page: the results, the parent and child entries of
\* the overlay, the terms of the running calls and AppState.currentTerm
TermObjects ==
    Range(searchList.items) \cup Range(modalParents.items) \cup Range(modalChildren.items)
        \cup {call.term : call \in modalCalls}
        \cup (IF currentTerm = NoTerm THEN {} ELSE {currentTerm})

\* the literals that fetchTermDefinition returns in place of a definition
FallbackDefinitions == {"Definition not available", "No definition available"}

\* C24: in every reachable state the definition field of every term object
\* is absent, empty or a definition that the term service returned: never one
\* of the fallback literals.
C24_NoFallbackStoredOnTerm ==
    \A term \in TermObjects : definitionOf(term) \notin FallbackDefinitions


\* the call goes on after the step: it waits at one of the awaits of stage
Continues(call, stage) ==
    \E next \in modalCalls' : next.id = call.id /\ next.pc \in stage

\* the call has sent the four requests of fetchJAXAnnotations
AnnotationsRequested(call) ==
    \A endpoint \in AnnotationEndpoints :
        TermRequest(endpoint, call.term.id, call.id, "annotations") \in termFetchLog'

\* C25: a failure of the definition fetch of a call leaves "Definition not
\* available" in the overlay and the call goes on to the synonyms or to the
\* annotations; a failure of its synonyms fetch leaves "No synonyms
\* available" and the call of a term with id goes on to the four requests of
\* the annotations; and a call ends, after a failure of any of its fetches
\* too, with the last statement of showTermDetailsModal, which resets
\* AppState.isLoadingModalData: no exception has taken it out before.
C25_FetchFailuresDegradeLocally ==
    [][\A call \in modalCalls :
         /\ Passes(call, "definition fetch", {"definition fetch", "definition json"}) =>
                /\ modalDefinition' = "Definition not available"
                /\ call.term.id # "" =>
                       Continues(call, {"synonyms fetch", "annotations fetch"})
         /\ Passes(call, "synonyms fetch", {"synonyms fetch", "synonyms json"}) =>
                /\ modalSynonyms' = Placeholder("No synonyms available")
                /\ call.term.id # "" =>
                       /\ Continues(call, {"annotations fetch"})
                       /\ AnnotationsRequested(call)
         /\ (Resumes(call) /\ call.id \notin Running(modalCalls')) =>
                /\ ~isLoadingModalData'
                /\ call.pc \in {"annotations fetch", "annotations json"} \/ call.term.id = ""]_vars

\* the definition fetch and the synonyms fetch of a call have failed, its
\* annotation fetch was rejected, and the call has ended
C25_Witness ==
    /\ modalDefinition = "Definition not available"
    /\ modalSynonyms = Placeholder("No synonyms available")
    /\ modalGenes = Placeholder("No associated genes found")
    /\ sectionOwner.genes = sectionOwner.definition
    /\ sectionOwner.definition = sectionOwner.title
    /\ modalCalls = {}
    /\ ~isLoadingModalData


\* the loading placeholders of initializeModalLoadingStates
LoadingPlaceholder(part) ==
    initializeModalLoadingStates(ClosedOverlay, NoCall)[part]

AnnotationParts == {"parents", "children", "genes", "diseases"}

\* C26: while a call waits for the four fetches of fetchJAXAnnotations, the
\* parents, children, genes and diseases sections that it wrote show their
\* loading placeholders; the step in which it writes them is the one in
\* which the last of the four fetches has settled, and it writes the four
\* sections together.
C26_SectionsWaitForAllFetches ==
    [][/\ \A call \in modalCalls' :
             call.pc \in {"annotations fetch", "annotations json"} =>
                \A part \in AnnotationParts :
                    sectionOwner'[part] = call.id =>
                        Overlay'[part] = LoadingPlaceholder(part)
       /\ \A call \in modalCalls :
             (call.pc = "annotations fetch" /\ call.id \notin Running(modalCalls')) =>
                /\ call.left = 1
                /\ \A part \in AnnotationParts : sectionOwner'[part] = call.id]_vars


-----------------------------------------------------------------------------
(* Properties of the rendered selection list (SpecSelection) *)

\* C27: in every reachable state the selection list shows the placeholder of
\* the empty selection if and only if the Selection Store is empty, and
\* otherwise one entry per term of the store, in the order of the store, with
\* the name and the id of that term.
C27_SelectionListMirrorsStore ==
    /\ selectionList.state = "EMPTY_SELECTION" <=> Len(selectedTerms) = 0
    /\ Len(selectedTerms) > 0 =>
          /\ selectionList.state = "ITEMS"
          /\ Len(selectionList.items) = Len(selectedTerms)
          /\ \A i \in DOMAIN selectedTerms :
                /\ selectionList.items[i].id = selectedTerms[i].id
                /\ selectionList.items[i].name = selectedTerms[i].name

\* a term has just been removed from between two others, and the list shows
\* the two that are left
C27_Witness ==
    /\ lastOp.op = "remove"
    /\ Len(lastOp.pre) = 3
    /\ lastOp.arg = lastOp.pre[2].id
    /\ Len(selectedTerms) = 2
    /\ selectionList.state = "ITEMS"
    /\ Len(selectionList.items) = 2


-----------------------------------------------------------------------------
(* Properties of the overlay and of the store under late responses *)

\* C28: in every reachable state the overlay is visible only if
\* AppState.currentTerm is a term: a closed overlay stays hidden until an
\* info icon is clicked, whatever response arrives meanwhile.
C28_VisibleOnlyWithCurrentTerm ==
    modalDisplay = "block" => currentTerm # NoTerm


\* C29: when a call of showTermDetailsModal ends, for a term with id or
\* without, none of the parents, children, genes and diseases sections shows
\* its loading placeholder.
C29_NoLoadingLeftAfterOpen ==
    [][\A call \in modalCalls :
         (Resumes(call) /\ call.id \notin Running(modalCalls')) =>
            \A part \in AnnotationParts : Overlay'[part] # LoadingPlaceholder(part)]_vars


\* the ids of the terms of the store, in order
StoreIds(terms) == [i \in DOMAIN terms |-> terms[i].id]

=============================================================================
